---- MODULE Spec2Model ----
(***************************************************************************)
(* Patent-Valuation-Tool (app.py): the binomial-lattice valuation of a     *)
(* real option, its sensitivity report, and the /calculate handler with    *)
(* the per-user history it stores.                                         *)
(*                                                                         *)
(* Numbers.  The program computes in IEEE doubles.  Here a real number x   *)
(* is the integer floor(x * Scale) (three decimals); money in currency     *)
(* units is a plain integer.  exp, sqrt and the n-th root are computed in  *)
(* that arithmetic (series, integer square root, integer root), every      *)
(* product and quotient rounding towards minus infinity.  Rounding is      *)
(* monotone, as the doubles' round-to-nearest is.  A NaN (the square root  *)
(* of a negative dt) is carried by the flag nan, not by the cells.         *)
(***************************************************************************)
EXTENDS Integers, Sequences, FiniteSets, TLC

\* ------------------------------------------------------------------ bounds
MaxYears == 3          \* whole years of maturity offered as inputs
MaxManualLen == 2      \* longest manual cost-of-delay sequence offered
MaxOther == 1          \* calculations the second requester stores (SpecHistory)
MaxExtra == 2          \* calculations the first requester stores beyond the limit
MaxAccounts == 3       \* largest user id handed out (SpecAccounts)

\* ------------------------------------------------------- program constants
HistoryLimit == 15     \* app.py:562
Thousand == 1000       \* app.py:508

Scale == 10 * 100      \* fixed-point unit: 1.0

SUPER_ADMIN_USERNAME == "Grid.Thoma"

\* ---------------------------------------------------------- real arithmetic
Max(a, b) == IF a >= b THEN a ELSE b
Min(a, b) == IF a <= b THEN a ELSE b
Abs(a) == IF a >= 0 THEN a ELSE -a

Mul(a, b) == (a * b) \div Scale
Div(a, b) == (a * Scale) \div b

\* int(x): truncation towards zero (Python int() of a float)
Trunc(x) == IF x >= 0 THEN x \div Scale ELSE -((-x) \div Scale)
\* floor(x)
Floor(x) == x \div Scale

\* round(x / unit) to the nearest integer, ties to even (Python round())
RoundHalfEven(x, unit) ==
    LET q == x \div unit
        rem == x - q * unit
    IN  IF 2 * rem < unit THEN q
        ELSE IF 2 * rem > unit THEN q + 1
        ELSE IF q % 2 = 0 THEN q ELSE q + 1

\* round(x, 2) of a real
Round2(x) == RoundHalfEven(x, 10) * 10

RECURSIVE SqrtIter(_, _, _)
SqrtIter(x, lo, hi) ==
    IF lo >= hi THEN lo
    ELSE LET mid == (lo + hi + 1) \div 2
         IN  IF mid * mid <= x THEN SqrtIter(x, mid, hi)
             ELSE SqrtIter(x, lo, mid - 1)

\* np.sqrt(x), x >= 0
Sqrt(x) == SqrtIter(x * Scale, 0, Max(x, Scale))

RECURSIVE ExpSeries(_, _, _)
ExpSeries(x, term, k) ==
    IF term = 0 THEN 0
    ELSE term + ExpSeries(x, (term * x) \div (k * Scale), k + 1)

\* np.exp(x)
Exp(x) == IF x >= 0 THEN ExpSeries(x, Scale, 1)
          ELSE Div(Scale, ExpSeries(-x, Scale, 1))

RECURSIVE Pow(_, _)
\* x ** k, k an integer
Pow(x, k) ==
    IF k < 0 THEN Div(Scale, Pow(x, -k))
    ELSE IF k = 0 THEN Scale
    ELSE Mul(Pow(x, k - 1), x)

RECURSIVE RootIter(_, _, _, _)
RootIter(x, k, lo, hi) ==
    IF lo >= hi THEN lo
    ELSE LET mid == (lo + hi + 1) \div 2
         IN  IF Pow(mid, k) <= x THEN RootIter(x, k, mid, hi)
             ELSE RootIter(x, k, lo, mid - 1)

\* x ** (1/k), x > 0, k >= 1
Root(x, k) ==
    IF x >= Scale THEN RootIter(x, k, Scale, Scale + (x - Scale) \div k + 1)
    ELSE RootIter(x, k, 0, Scale)

\* --------------------------------------------------------- calculate_lattices
\* dm: None, or a list
NoneList == [isNone |-> TRUE, list |-> << >>]
SomeList(s) == [isNone |-> FALSE, list |-> s]

\* A[i][j] = V * u**(j-i) * d**i
AssetLattice(V, up, dn, nn) ==
    [i \in 0..nn |-> [jj \in 0..nn |-> Mul(Mul(V, Pow(up, jj - i)), Pow(dn, i))]]

\* variant: the payoff with the sign of A - K reversed
ExerciseValuePut(a, K) == Max(K - a, 0)

\* N[i][j] = max(A[i][j] - K, 0)
ExerciseValue(a, K) == Max(a - K, 0)

\* variant: the payoff on the triangle i <= j only, zero elsewhere
ExerciseLatticeTriangular(AA, K, nn) ==
    [i \in 0..nn |-> [jj \in 0..nn |-> IF i <= jj THEN ExerciseValue(AA[i][jj], K) ELSE 0]]

\* N, on the whole square as A is
ExerciseLattice(AA, K, nn) ==
    [i \in 0..nn |-> [jj \in 0..nn |-> ExerciseValue(AA[i][jj], K)]]

\* C = zeros; C[i][n] = N[i][n]
TerminalLattice(NN, nn) ==
    [i \in 0..nn |-> [jj \in 0..nn |-> IF jj = nn THEN NN[i][nn] ELSE 0]]

\* the geometric interpolation of the auto mode
AutoDeltas(delta, nn) ==
    LET g == Root(Div(Scale, delta), nn) - Scale
    IN  [t \in 0..nn |-> IF t = nn THEN Scale ELSE Mul(delta, Pow(Scale + g, t))]

\* variant: the manual list is never used
DeltaScheduleAutoOnly(delta, nn, dm) ==
    IF nn > 0 /\ delta > 0 THEN AutoDeltas(delta, nn)
    ELSE [t \in 0..nn |-> 0]

\* variant: one formula for every mode, the terminal entry always 1.0
DeltaScheduleForced(delta, nn, dm) ==
    IF ~dm.isNone /\ Len(dm.list) = nn
    THEN [t \in 0..nn |-> IF t = nn THEN Scale ELSE dm.list[t + 1]]
    ELSE IF nn > 0 /\ delta > 0 THEN AutoDeltas(delta, nn)
    ELSE [t \in 0..nn |-> IF t = nn THEN Scale ELSE 0]

\* the cost-of-delay schedule deltas[0..n]
DeltaSchedule(delta, nn, dm) ==
    IF ~dm.isNone /\ Len(dm.list) = nn
    THEN [t \in 0..nn |-> IF t = nn THEN Scale ELSE dm.list[t + 1]]
    ELSE IF nn > 0 /\ delta > 0 THEN AutoDeltas(delta, nn)
    ELSE [t \in 0..nn |-> 0]

\* variant: an even chance as the fallback
DegenerateHalf == Scale \div 2

\* the value used for p when u = d
DegenerateP == 0

\* ps_for_export[t]
Probability(rr, delta_t, dt, up, dn) ==
    IF up # dn THEN Div(Exp(Mul(rr - delta_t, dt)) - dn, up - dn)
    ELSE DegenerateP

\* variant: the continuation value alone, no early exercise
NodeValueHoldOnly(hold, intrinsic_value) == hold

\* C[i][j] = max(hold, intrinsic_value)
NodeValue(hold, intrinsic_value) == Max(hold, intrinsic_value)

\* hold = discount * (p * C[i][j+1] + (1-p) * C[i+1][j+1])
Hold(disc, p, cu, cd) == Mul(disc, Mul(p, cu) + Mul(Scale - p, cd))

\* variant: the loop writes one column too far to the right
WrittenColumnNext(jj) == jj + 1

\* the column the induction step for period jj writes
WrittenColumn(jj) == jj

\* variant: a pass over every row that has a row below it
InductColumnAllRows(CC, NN, ps, disc, jj, nn) ==
    [i \in 0..nn |-> [c \in 0..nn |->
        IF c = WrittenColumn(jj) /\ i < nn
        THEN NodeValue(Hold(disc, ps[jj], CC[i][jj + 1], CC[i + 1][jj + 1]), NN[i][jj])
        ELSE CC[i][c]]]

\* one pass of the outer loop: the cells (i, jj), i in 0..jj
InductColumn(CC, NN, ps, disc, jj, nn) ==
    [i \in 0..nn |-> [c \in 0..nn |->
        IF c = WrittenColumn(jj) /\ i <= jj
        THEN NodeValue(Hold(disc, ps[jj], CC[i][jj + 1], CC[i + 1][jj + 1]), NN[i][jj])
        ELSE CC[i][c]]]

RECURSIVE Induct(_, _, _, _, _, _)
Induct(CC, NN, ps, disc, jj, nn) ==
    IF jj < 0 THEN CC
    ELSE Induct(InductColumn(CC, NN, ps, disc, jj, nn), NN, ps, disc, jj - 1, nn)

\* everything calculate_lattices computes before the induction loop
LatticeSetup(V, K, TT, sig, delta, rr, nn, dm) ==
    LET dt == TT \div nn
        up == Exp(Mul(sig, Sqrt(dt)))
        dn == Div(Scale, up)
        AA == AssetLattice(V, up, dn, nn)
        NN == ExerciseLattice(AA, K, nn)
        ds == DeltaSchedule(delta, nn, dm)
    IN  [u |-> up, d |-> dn, A |-> AA, N |-> NN, C |-> TerminalLattice(NN, nn),
         discount |-> Exp(Mul(-rr, dt)), deltas |-> ds,
         ps |-> [t \in 0..nn |-> Probability(rr, ds[t], dt, up, dn)]]

\* calculate_lattices, for T >= 0 and n >= 1
calculate_lattices(V, K, TT, sig, delta, rr, nn, dm) ==
    LET s == LatticeSetup(V, K, TT, sig, delta, rr, nn, dm)
    IN  [s EXCEPT !.C = Induct(s.C, s.N, s.ps, s.discount, nn - 1, nn)]

\* ------------------------------------------------ calculate_sensitivity_data
\* variant: the single-point valuation on the period count it is passed
get_C0_PassedN(V, K, TT, sig, delta, rr, nn) ==
    (calculate_lattices(V, K, TT, sig, delta, rr, nn, NoneList).C[0][0] * Scale)
        \div Thousand

\* variant: the single-point valuation on one period, whatever T is
get_C0_OnePeriod(V, K, TT, sig, delta, rr, nn) ==
    (calculate_lattices(V, K, TT, sig, delta, rr, 1, NoneList).C[0][0] * Scale)
        \div Thousand

\* get_C0: the single-point valuation; the n it is passed is not used
get_C0(V, K, TT, sig, delta, rr, nn) ==
    LET new_n == Max(1, Trunc(TT))
    IN  (calculate_lattices(V, K, TT, sig, delta, rr, new_n, NoneList).C[0][0] * Scale)
            \div Thousand

\* params_to_test, in the order of the dictionary
ParamNames == <<"Asset Value (V)", "Volatility", "Time to Maturity (T)",
                "Exercise Cost (K)", "Cost of Delay", "Risk-free Rate (r)">>

\* x * factor when `name` is the parameter under test, x otherwise
Vary(name, tested, factor, x) == IF name = tested THEN Mul(x, factor) ELSE x

\* new_C for parameter `name` multiplied by `factor`
Perturbed(name, factor, V, K, TT, sig, delta, rr, nn) ==
    get_C0(Vary(name, "Asset Value (V)", factor, V),
           Vary(name, "Exercise Cost (K)", factor, K),
           Vary(name, "Time to Maturity (T)", factor, TT),
           Vary(name, "Volatility", factor, sig),
           Vary(name, "Cost of Delay", factor, delta),
           Vary(name, "Risk-free Rate (r)", factor, rr),
           nn)

\* variant: no test of the base value; the quotient by zero is taken by the
\* smallest positive value instead
SpiderPercentNoGuard(base_option_value, min_C, max_C) ==
    LET abs_change == Max(Abs(max_C - base_option_value),
                          Abs(min_C - base_option_value))
    IN  Div(abs_change, Max(base_option_value, 1)) * 100

\* percent_change, before it is rounded
SpiderPercent(base_option_value, min_C, max_C) ==
    IF base_option_value = 0 THEN 0
    ELSE LET abs_change == Max(Abs(max_C - base_option_value),
                               Abs(min_C - base_option_value))
         IN  Div(abs_change, base_option_value) * 100

\* np.linspace(lo, hi, num).tolist()
Linspace(lo, hi, num) ==
    [k \in 1..num |-> IF k = num THEN hi ELSE lo + ((k - 1) * (hi - lo)) \div (num - 1)]

\* the label of a series of line chart 1: round(series_v / 1000)
VLabel(series_v) == RoundHalfEven(series_v, Thousand)
\* the label of a series of line chart 2: round(series_delta * 100, 1)
DeltaLabel(series_delta) == RoundHalfEven(series_delta * 100, 100) * 100

\* the index of the last factor whose series carries label l (a later series
\* with the same name replaces the earlier one in the dictionary)
LastWith(labels, l) == CHOOSE k \in DOMAIN labels :
    labels[k] = l /\ \A m \in DOMAIN labels : labels[m] = l => m <= k

\* c_values of one series: the option value along the volatility sweep
Series(V, K, TT, sigmas, delta, rr, nn) ==
    [x \in DOMAIN sigmas |-> Round2(get_C0(V, K, TT, sigmas[x], delta, rr, nn))]

calculate_sensitivity_data(V, K, TT, sig, delta, rr, nn) ==
    LET base_option_value == Perturbed("", Scale, V, K, TT, sig, delta, rr, nn)
        factors == <<900, 1100>>
        results == [name \in {ParamNames[k] : k \in DOMAIN ParamNames} |->
                      [f \in 1..2 |-> Perturbed(name, factors[f], V, K, TT, sig, delta, rr, nn)]]
        tornado_data == [name \in DOMAIN results |->
                      [min |-> Min(results[name][1], results[name][2]),
                       max |-> Max(results[name][1], results[name][2]),
                       base_value |-> base_option_value]]
        spider_data == [name \in DOMAIN results |->
                      Round2(SpiderPercent(base_option_value,
                                           tornado_data[name].min, tornado_data[name].max))]
        sigma_line_range == Linspace(Mul(sig, 500), Mul(sig, 1500), 7)
        v_series == <<Mul(V, 800), Mul(V, 1000), Mul(V, 1200)>>
        v_labels == [k \in 1..3 |-> VLabel(v_series[k])]
        delta_series == <<Mul(delta, 500), Mul(delta, 1000), Mul(delta, 1500)>>
        delta_labels == [k \in 1..3 |-> DeltaLabel(delta_series[k])]
        \* chart 1 varies V, chart 2 the cost of delay
        chart == [c \in 1..2 |->
                    LET labels == IF c = 1 THEN v_labels ELSE delta_labels
                    IN  [l \in {labels[k] : k \in 1..3} |->
                           LET k == LastWith(labels, l)
                           IN  Series(IF c = 1 THEN v_series[k] ELSE V, K, TT,
                                      sigma_line_range,
                                      IF c = 1 THEN delta ELSE delta_series[k], rr, nn)]]
    IN  [tornado |-> tornado_data,
         spider |-> spider_data,
         line_chart_v_sigma |-> [x_labels |-> sigma_line_range, data |-> chart[1]],
         line_chart_delta_sigma |-> [x_labels |-> sigma_line_range, data |-> chart[2]],
         base_option_value |-> base_option_value]

\* ------------------------------------------------------------ the requests
\* a field of the request body: a string float() accepts, or one it rejects
Num(v) == [ok |-> TRUE, v |-> v]
NotNum == [ok |-> FALSE, v |-> 0]

Users == {1, 2}

AssetInputs == {Num(850), Num(1000), Num(1300), NotNum}
ExerciseInputs == {Num(900)}
TimeInputs == {Num(-2500), Num(-500), Num(500), Num(2500)}
                 \cup {Num(k * Scale) : k \in 0..MaxYears}
SigmaInputs == {Num(0), Num(200)}
RateInputs == {Num(0), Num(2000)}
DeltaEntries == {Num(0), Num(500)}
\* data['delta'] of the auto mode: one number
AutoInputs == {<<x>> : x \in DeltaEntries \cup {NotNum}}
\* data['delta'] of the manual mode, split at the commas ('' gives no entry)
ManualInputs == UNION {[1..k -> DeltaEntries] : k \in 0..MaxManualLen}
                  \cup {<<NotNum>>, <<Num(500), NotNum>>}

RequestsOf(vs, ts, sigs, rs, autos, manuals) ==
    {[V |-> v, K |-> k, T |-> t, sigma |-> sg, r |-> rt, mode |-> m[1], delta |-> m[2]] :
        v \in vs, k \in ExerciseInputs, t \in ts, sg \in sigs, rt \in rs,
        m \in ({"auto"} \X autos) \cup ({"manual"} \X manuals)}

\* the requests of Spec
Requests == RequestsOf(AssetInputs, TimeInputs, SigmaInputs, RateInputs,
                       AutoInputs, ManualInputs)
\* the requests of SpecHistory: one that is valued, one that is rejected
HistoryRequests == RequestsOf({Num(1000)}, {Num(Scale)}, {Num(200)}, {Num(0)},
                              {<<Num(0)>>}, {<<NotNum>>})

\* ------------------------------------------------------------------ state
VARIABLES
    pc,                  \* where the /calculate handler stands
    current_user,        \* the logged-in requester
    data,                \* request.get_json()
    V_calc, K_calc, T, sigma, r, delta_val, deltas_manual, n,
    u, d, discount,      \* calculate_lattices: the step factors and the discount
    A, N, C,             \* the asset, exercise and option lattices
    deltas, ps_for_export,
    j,                   \* the period the induction loop is at
    nan,                 \* the lattices hold NaN (dt < 0)
    returned,            \* calculate_lattices has returned
    initial_option_value,\* C[0][0]
    thousands,           \* A_thousands, N_thousands, C_thousands
    sensitivity_data,
    committed,           \* db.session.commit() has stored this request's calculation
    exc,                 \* str(e) of the exception raised
    resp,                \* the response of the last request
    calculations,        \* the Calculation table
    clock,               \* db.func.now()
    users,               \* the User table
    stored               \* history variable: every row a user has stored, in order

reqVars == <<current_user, data>>
inVars == <<V_calc, K_calc, T, sigma, r, delta_val, deltas_manual, n>>
latVars == <<u, d, discount, A, N, deltas, ps_for_export, nan>>
outVars == <<initial_option_value, thousands, sensitivity_data>>
dbVars == <<calculations, clock, stored, users>>
\* the locals of the /calculate handler and its response
handlerVars == <<pc, reqVars, inVars, latVars, C, j, returned, outVars, committed, exc, resp>>
vars == <<pc, reqVars, inVars, latVars, C, j, returned, outVars, committed, exc, resp,
          dbVars>>

NoUser == 0
NoData == [V |-> NotNum, K |-> NotNum, T |-> NotNum, sigma |-> NotNum, r |-> NotNum,
           mode |-> "auto", delta |-> << >>]
NoResponse == [status |-> 0, kind |-> "none", error |-> "", parts |-> {}]
ResultParts == {"summary", "asset", "net", "option", "sensitivity"}
SheetParts == {"summary", "schedules", "asset", "net", "option"}
ValidationMessage == "Manual Cost of Delay values must be valid numbers."

\* create_default_admin: the one row of the User table at start-up
DefaultAdmin == [id |-> 1, username |-> SUPER_ADMIN_USERNAME,
                 is_admin |-> TRUE, is_super_admin |-> TRUE]
\* the ids of the rows of a User table
UserIds(tbl) == {x.id : x \in tbl}

BlankInputs ==
    /\ V_calc' = 0 /\ K_calc' = 0 /\ T' = 0 /\ sigma' = 0 /\ r' = 0
    /\ delta_val' = 0 /\ deltas_manual' = NoneList /\ n' = 0
BlankLattices ==
    /\ u' = 0 /\ d' = 0 /\ discount' = 0 /\ A' = << >> /\ N' = << >> /\ C' = << >>
    /\ deltas' = << >> /\ ps_for_export' = << >> /\ j' = 0 /\ nan' = FALSE
    /\ returned' = FALSE
BlankOutputs ==
    /\ initial_option_value' = 0 /\ thousands' = << >> /\ sensitivity_data' = << >>

Init ==
    /\ pc = "idle" /\ current_user = NoUser /\ data = NoData
    /\ V_calc = 0 /\ K_calc = 0 /\ T = 0 /\ sigma = 0 /\ r = 0
    /\ delta_val = 0 /\ deltas_manual = NoneList /\ n = 0
    /\ u = 0 /\ d = 0 /\ discount = 0 /\ A = << >> /\ N = << >> /\ C = << >>
    /\ deltas = << >> /\ ps_for_export = << >> /\ j = 0 /\ nan = FALSE
    /\ returned = FALSE
    /\ initial_option_value = 0 /\ thousands = << >> /\ sensitivity_data = << >>
    /\ committed = FALSE /\ exc = "" /\ resp = NoResponse
    /\ calculations = {} /\ clock = 0
    /\ stored = [w \in Users |-> << >>]
    /\ users = {DefaultAdmin}

\* ------------------------------------------------------------- /calculate
\* a logged-in user posts a request
Request(w, q) ==
    /\ pc = "idle"
    /\ w \in UserIds(users)
    /\ pc' = "parse"
    /\ current_user' = w /\ data' = q
    /\ UNCHANGED <<inVars, latVars, C, j, returned, outVars, committed, exc, resp, dbVars>>

\* the handler has returned: its locals are gone, the table stays
Return ==
    /\ pc = "responded"
    /\ pc' = "idle"
    /\ current_user' = NoUser /\ data' = NoData
    /\ BlankInputs /\ BlankLattices /\ BlankOutputs
    /\ committed' = FALSE /\ exc' = "" /\ resp' = NoResponse
    /\ UNCHANGED dbVars

\* variant: a fixed text in place of str(e)
FailureWithoutMessage(message) ==
    [status |-> 500, kind |-> "error", error |-> "Internal Server Error", parts |-> {}]

\* the response of the except clause: the exception's message, status 500
Failure(message) == [status |-> 500, kind |-> "error", error |-> message, parts |-> {}]

\* n = int(T); if n == 0: n = 1
PeriodCount(TT) == IF Trunc(TT) = 0 THEN 1 ELSE Trunc(TT)

\* the fields read before the cost of delay, and those read after it
ParsedFirst(q) == q.V.ok /\ q.K.ok
ParsedLast(q) == q.T.ok /\ q.sigma.ok /\ q.r.ok
AllNumeric(s) == \A k \in DOMAIN s : s[k].ok

\* lines 485-516: the fields are converted in the order V, K, delta, T, sigma, r
Parse ==
    /\ pc = "parse"
    /\ IF ~ParsedFirst(data)
       THEN /\ exc' = "could not convert string to float"
            /\ pc' = "fail" /\ resp' = resp
            /\ UNCHANGED inVars
       ELSE IF data.mode = "manual" /\ ~AllNumeric(data.delta)
       THEN /\ resp' = [status |-> 400, kind |-> "error",
                         error |-> ValidationMessage, parts |-> {}]
            /\ pc' = "responded" /\ exc' = exc
            /\ UNCHANGED inVars
       ELSE IF (data.mode = "auto" /\ ~AllNumeric(data.delta)) \/ ~ParsedLast(data)
       THEN /\ exc' = "could not convert string to float"
            /\ pc' = "fail" /\ resp' = resp
            /\ UNCHANGED inVars
       ELSE /\ V_calc' = (data.V.v * Thousand) \div Scale
            /\ K_calc' = (data.K.v * Thousand) \div Scale
            /\ deltas_manual' = IF data.mode = "auto" THEN NoneList
                                ELSE SomeList([k \in DOMAIN data.delta |-> data.delta[k].v])
            /\ delta_val' = IF data.mode = "auto" THEN data.delta[1].v
                            ELSE IF data.delta # << >> THEN data.delta[1].v ELSE 0
            /\ T' = data.T.v /\ sigma' = data.sigma.v /\ r' = data.r.v
            /\ n' = PeriodCount(data.T.v)
            /\ pc' = "lattice" /\ exc' = exc /\ resp' = resp
    /\ UNCHANGED <<reqVars, latVars, C, j, returned, outVars, committed, dbVars>>

\* calculate_lattices, lines 120-149: all that precedes the induction loop.
\* With n < 0 every range is empty and so is every list; with dt < 0 the
\* square root is NaN and so is every cell but A[0][0] and N[0][0].
BuildLattices ==
    /\ pc = "lattice"
    /\ IF n >= 1 /\ T < 0
       THEN /\ nan' = TRUE
            /\ UNCHANGED <<u, d, discount, A, N, C, deltas, ps_for_export>>
       ELSE LET s == LatticeSetup(V_calc, K_calc, T, sigma, delta_val, r, n, deltas_manual)
            IN  /\ u' = s.u /\ d' = s.d /\ discount' = s.discount
                /\ A' = s.A /\ N' = s.N /\ C' = s.C
                /\ deltas' = s.deltas /\ ps_for_export' = s.ps
                /\ nan' = nan
    /\ j' = n - 1
    /\ pc' = "induct"
    /\ UNCHANGED <<reqVars, inVars, returned, outVars, committed, exc, resp, dbVars>>

\* calculate_lattices, lines 151-157: one pass of the loop over j, or its end
InductionStep ==
    /\ pc = "induct"
    /\ IF j >= 0
       THEN /\ C' = IF nan THEN C
                    ELSE InductColumn(C, N, ps_for_export, discount, j, n)
            /\ j' = j - 1
            /\ pc' = pc /\ returned' = returned
       ELSE /\ returned' = TRUE
            /\ pc' = "summary"
            /\ UNCHANGED <<C, j>>
    /\ UNCHANGED <<reqVars, inVars, latVars, outVars, committed, exc, resp, dbVars>>

\* [[int(round(val / 1000)) for val in row] for row in X]
InThousands(X) == [i \in DOMAIN X |-> [c \in DOMAIN X[i] |-> RoundHalfEven(X[i][c], Thousand)]]

\* lines 524-541: C[0][0] and the three lattices in thousands
Summarise ==
    /\ pc = "summary"
    /\ IF n < 0
       THEN /\ exc' = "list index out of range"
            /\ pc' = "fail"
            /\ UNCHANGED <<initial_option_value, thousands>>
       ELSE IF nan
       THEN /\ exc' = "cannot convert float NaN to integer"
            /\ pc' = "fail"
            /\ UNCHANGED <<initial_option_value, thousands>>
       ELSE /\ initial_option_value' = C[0][0]
            /\ thousands' = [asset |-> InThousands(A), net |-> InThousands(N),
                             option |-> InThousands(C)]
            /\ pc' = "sensitivity" /\ exc' = exc
    /\ UNCHANGED <<reqVars, inVars, latVars, C, j, returned, sensitivity_data, committed,
                   resp, dbVars>>

\* lines 543-554
Sensitivity ==
    /\ pc = "sensitivity"
    /\ sensitivity_data' = calculate_sensitivity_data(V_calc, K_calc, T, sigma,
                                                      delta_val, r, n)
    /\ pc' = "store"
    /\ UNCHANGED <<reqVars, inVars, latVars, C, j, returned, initial_option_value,
                   thousands, committed, exc, resp, dbVars>>

\* Calculation.query.filter_by(user_id=w)
RowsOf(rows, w) == {c \in rows : c.user_id = w}

\* variant: the relationship ordered by timestamp desc
Newest(rows, w) == CHOOSE c \in RowsOf(rows, w) :
    \A e \in RowsOf(rows, w) : c.timestamp >= e.timestamp

\* current_user.calculations.first(): the relationship is ordered by timestamp asc
Oldest(rows, w) == CHOOSE c \in RowsOf(rows, w) :
    \A e \in RowsOf(rows, w) : c.timestamp <= e.timestamp

\* if calc_count >= 15: delete the oldest
AfterEviction(rows, w) ==
    IF Cardinality(RowsOf(rows, w)) >= HistoryLimit
    THEN rows \ {Oldest(rows, w)}
    ELSE rows

\* lines 556-575: evict, add, commit
Store ==
    /\ pc = "store"
    /\ LET new_calc == [user_id |-> current_user, timestamp |-> clock + 1,
                        initial_option_value |-> initial_option_value]
       IN  /\ calculations' = AfterEviction(calculations, current_user) \cup {new_calc}
           /\ stored' = [stored EXCEPT ![current_user] = Append(@, new_calc)]
    /\ clock' = clock + 1
    /\ users' = users
    /\ committed' = TRUE
    /\ pc' = "respond"
    /\ UNCHANGED <<reqVars, inVars, latVars, C, j, returned, outVars, exc, resp>>

\* lines 578-662: the spreadsheet when data['export'] is 'excel' (writing it can
\* raise), the JSON body otherwise
Respond ==
    /\ pc = "respond"
    /\ \E export \in BOOLEAN, written \in BOOLEAN :
          IF export /\ ~written
          THEN /\ exc' = "export failed" /\ pc' = "fail" /\ resp' = resp
          ELSE /\ resp' = [status |-> 200, kind |-> IF export THEN "file" ELSE "json",
                            error |-> "",
                            parts |-> IF export THEN SheetParts ELSE ResultParts]
               /\ pc' = "responded" /\ exc' = exc
    /\ UNCHANGED <<reqVars, inVars, latVars, C, j, returned, outVars, committed, dbVars>>

\* lines 664-667: except Exception as e
Fail ==
    /\ pc = "fail"
    /\ resp' = Failure(exc)
    /\ pc' = "responded"
    /\ UNCHANGED <<reqVars, inVars, latVars, C, j, returned, outVars, committed, exc,
                   dbVars>>

\* get_user_history: the user's rows, the most recent first
RECURSIVE Descending(_)
Descending(rows) ==
    IF rows = {} THEN << >>
    ELSE LET c == CHOOSE x \in rows : \A e \in rows : e.timestamp <= x.timestamp
         IN  <<c>> \o Descending(rows \ {c})
get_user_history(w) == Descending(RowsOf(calculations, w))

Handle == Parse \/ BuildLattices \/ InductionStep \/ Summarise \/ Sensitivity
            \/ Store \/ Respond \/ Fail \/ Return

\* Spec: the requests posted while the table is still empty
Next ==
    \/ \E w \in Users, q \in Requests : calculations = {} /\ Request(w, q)
    \/ Handle

Spec == Init /\ [][Next]_vars

\* ------------------------------------------------------------ the accounts
\* the usernames of the forms (an e-mail address goes with each, one to one)
Usernames == {SUPER_ADMIN_USERNAME, "alice", "bob"}

\* User.query.get(id); the row with that id
ById(tbl, id) == CHOOSE x \in tbl : x.id = id
SuperAdmins(tbl) == {x \in tbl : x.is_super_admin}

\* db.session.delete(user): the row and, by the cascade, the user's calculations
Deleted(x) ==
    /\ users' = users \ {x}
    /\ calculations' = calculations \ RowsOf(calculations, x.id)
\* the handler redirects with a flash message and writes nothing
Refused == UNCHANGED <<users, calculations>>

\* POST /delete_account by the logged-in user `me`
delete_account(me) ==
    /\ me \in users
    /\ IF /\ me.is_super_admin /\ me.username = SUPER_ADMIN_USERNAME
          /\ SuperAdmins(users) \ {me} = {}
       THEN Refused
       ELSE Deleted(me)
    /\ UNCHANGED <<handlerVars, clock, stored>>

\* POST /admin/manage_users, action add_user
add_user(me, username, is_admin, is_super_admin) ==
    /\ me \in users /\ me.is_admin
    /\ IF \E x \in users : x.username = username
       THEN Refused
       ELSE IF is_super_admin /\ ~me.is_super_admin
       THEN Refused
       ELSE LET new_id == (CHOOSE m \in UserIds(users) : \A k \in UserIds(users) : k <= m) + 1
                new_user == [id |-> new_id, username |-> username,
                             is_admin |-> (is_admin \/ is_super_admin),
                             is_super_admin |-> is_super_admin]
            IN  /\ new_id <= MaxAccounts
                /\ users' = users \cup {new_user}
                /\ calculations' = calculations
    /\ UNCHANGED <<handlerVars, clock, stored>>

\* POST /admin/manage_users, action delete_user
delete_user(me, user_id) ==
    /\ me \in users /\ me.is_admin
    /\ IF user_id \notin UserIds(users)
       THEN Refused
       ELSE LET user_to_delete == ById(users, user_id)
            IN  IF /\ user_to_delete.is_super_admin
                   /\ user_to_delete.username = SUPER_ADMIN_USERNAME
                   /\ Cardinality(SuperAdmins(users)) <= 1
                THEN Refused
                ELSE IF user_to_delete.is_super_admin /\ ~me.is_super_admin
                THEN Refused
                ELSE Deleted(user_to_delete)
    /\ UNCHANGED <<handlerVars, clock, stored>>

\* POST /admin/manage_users, action toggle_admin
toggle_admin(me, user_id) ==
    /\ me \in users /\ me.is_admin
    /\ IF user_id \notin UserIds(users)
       THEN Refused
       ELSE LET user_to_toggle == ById(users, user_id)
            IN  IF user_to_toggle.is_super_admin /\ ~me.is_super_admin
                THEN Refused
                ELSE IF user_to_toggle.username = SUPER_ADMIN_USERNAME
                        /\ user_to_toggle.is_admin
                THEN Refused
                ELSE /\ users' = (users \ {user_to_toggle}) \cup
                          {[user_to_toggle EXCEPT
                               !.is_admin = ~user_to_toggle.is_admin,
                               !.is_super_admin = user_to_toggle.is_super_admin
                                                    /\ ~user_to_toggle.is_admin]}
                     /\ calculations' = calculations
    /\ UNCHANGED <<handlerVars, clock, stored>>

\* POST /admin/manage_users, action set_super_admin: the role is handed over
set_super_admin(me, user_id) ==
    /\ me \in users /\ me.is_admin
    /\ IF ~me.is_super_admin
       THEN Refused
       ELSE IF user_id \notin UserIds(users)
       THEN Refused
       ELSE LET user_to_promote == ById(users, user_id)
            IN  IF user_to_promote.id = me.id
                THEN Refused
                ELSE /\ users' = (users \ {me, user_to_promote}) \cup
                          {[me EXCEPT !.is_super_admin = FALSE],
                           [user_to_promote EXCEPT !.is_admin = TRUE,
                                                   !.is_super_admin = TRUE]}
                     /\ calculations' = calculations
    /\ UNCHANGED <<handlerVars, clock, stored>>

\* the account-management requests of the logged-in users
NextAccounts ==
    \/ \E me \in users : delete_account(me)
    \/ \E me \in users, username \in Usernames, is_admin \in BOOLEAN,
          is_super_admin \in BOOLEAN : add_user(me, username, is_admin, is_super_admin)
    \/ \E me \in users, user_id \in 1..MaxAccounts : delete_user(me, user_id)
    \/ \E me \in users, user_id \in 1..MaxAccounts : toggle_admin(me, user_id)
    \/ \E me \in users, user_id \in 1..MaxAccounts : set_super_admin(me, user_id)

SpecAccounts == Init /\ [][NextAccounts]_vars

\* the same handler, two requesters and enough requests to overflow a history
Quota(w) == IF w = 1 THEN HistoryLimit + MaxExtra ELSE MaxOther

\* the second requester is a plain user the default admin adds
NextHistory ==
    \/ \E w \in Users, q \in HistoryRequests :
          Len(stored[w]) < Quota(w) /\ Request(w, q)
    \/ Handle
    \/ pc = "idle" /\ add_user(DefaultAdmin, "alice", FALSE, FALSE)

SpecHistory == Init /\ [][NextHistory]_vars

\* ------------------------------------------------------------------ theorems
\* calculate_lattices has run on numbers (n >= 1, dt >= 0): up to the loop, and to its end
Built == (pc = "induct" \/ returned) /\ ~nan /\ n >= 1
Returned == returned /\ ~nan /\ n >= 1
\* every probability the induction reads lies in [0, 1]
ProbabilitiesInRange == \A t \in 0..(n - 1) : 0 <= ps_for_export[t] /\ ps_for_export[t] <= Scale

C2_TerminalBoundary ==
    Built => \A i \in 0..n : C[i][n] = N[i][n]

\* C2 witness: the loop has run over two periods or more and column n is not all zero
C2_Witness ==
    /\ Returned /\ n >= 2
    /\ \E i \in 0..n : C[i][n] > 0
    /\ C[0][0] > 0

\* the asset values a request can carry, in currency units
AssetValues == {(x.v * Thousand) \div Scale : x \in {y \in AssetInputs : y.ok}}
\* the root option value of the request in hand, with V replaced
RootValue(V) ==
    calculate_lattices(V, K_calc, T, sigma, delta_val, r, n, deltas_manual).C[0][0]

\* C3 as stated: monotonicity in V.  For two requests that differ only in V,
\* V1 <= V2, the root option value of V1 is at most that of V2.
C3_MonotoneInV_AsStated ==
    Returned => \A V2 \in AssetValues : V2 >= V_calc => RootValue(V2) >= C[0][0]

\* C3 amended: the same, for requests whose probabilities p[0..n-1] all lie in [0, 1].
C3_MonotoneInV ==
    (Returned /\ ProbabilitiesInRange) =>
        \A V2 \in AssetValues : V2 >= V_calc => RootValue(V2) >= C[0][0]

\* C3 witness: probabilities in range, a positive volatility, and a larger V that
\* is worth strictly more
C3_Witness ==
    /\ Returned /\ ProbabilitiesInRange /\ sigma > 0 /\ n >= 2
    /\ \E V2 \in AssetValues : V2 > V_calc /\ RootValue(V2) > C[0][0]

\* C4: the period count.  For every T of a request that is parsed, the n handed to
\* calculate_lattices is max(1, floor(T)).
C4_PeriodCount ==
    pc = "lattice" => n = Max(1, Floor(T))

\* the manual request supplied the list it was asked for
ManualMode == data.mode = "manual"
SuppliedAsSchedule ==
    /\ DOMAIN deltas = 0..n
    /\ deltas[n] = Scale
    /\ Len(deltas_manual.list) = n
    /\ \A t \in 0..(n - 1) : deltas[t] = deltas_manual.list[t + 1]

\* C5 as stated: in manual mode the schedule always has length n+1, ends in 1.0
\* and starts with the supplied sequence, whatever (non-empty) sequence was supplied.
C5_ManualSchedule_AsStated ==
    (Built /\ ManualMode /\ deltas_manual.list # << >>) => SuppliedAsSchedule

\* C5 amended: the same, for a supplied sequence of exactly n entries.
C5_ManualSchedule ==
    (Built /\ ManualMode /\ Len(deltas_manual.list) = n) => SuppliedAsSchedule

\* C5 witness: a manual request of two periods with two entries, the first of them 0
C5_Witness ==
    /\ Built /\ ManualMode /\ n = 2 /\ Len(deltas_manual.list) = 2
    /\ deltas_manual.list[1] = 0 /\ deltas[2] = Scale

\* C6: auto mode, n > 0.  With the scalar 0 the schedule is 0 everywhere, the
\* terminal entry included; with a positive scalar the terminal entry is 1.0 and
\* delta[0] is the scalar.
C6_AutoSchedule ==
    (Built /\ ~ManualMode) =>
        /\ DOMAIN deltas = 0..n
        /\ delta_val = 0 => \A t \in 0..n : deltas[t] = 0
        /\ delta_val > 0 => deltas[n] = Scale /\ deltas[0] = delta_val

\* C6 witness: an auto request with the scalar 0 over two periods or more
C6_Witness ==
    Built /\ ~ManualMode /\ delta_val = 0 /\ n >= 2 /\ deltas[n] = 0

\* the worked inputs: V=1000, K=900, T=1, sigma=0, cost of delay 0 (auto), r=0
WorkedInputs ==
    /\ V_calc = 1000 /\ K_calc = 900 /\ T = Scale /\ sigma = 0
    /\ ~ManualMode /\ delta_val = 0 /\ r = 0

Reported == pc \in {"store", "respond"}

\* C8: the divide-by-zero guard.  When the base option value of the report is 0,
\* the spider percentage of each of the six parameters is 0.
C8_SpiderGuard ==
    (Reported /\ sensitivity_data.base_option_value = 0) =>
        /\ DOMAIN sensitivity_data.spider = {ParamNames[k] : k \in 1..6}
        /\ \A name \in DOMAIN sensitivity_data.spider : sensitivity_data.spider[name] = 0

\* C8 witness: a base value of 0 with a perturbed result that is not 0
C8_Witness ==
    /\ Reported /\ sensitivity_data.base_option_value = 0
    /\ \E name \in DOMAIN sensitivity_data.tornado : sensitivity_data.tornado[name].max > 0

\* the last k elements of s, the latest first
LatestFirst(s, k) ==
    LET m == Min(Len(s), k)
    IN  [x \in 1..m |-> s[Len(s) + 1 - x]]

\* C9: bounded history.  After any sequence of requests the history of each
\* requester holds at most 15 calculations, and they are the ones that requester
\* stored last: a calculation stored while 15 are there evicts that requester's
\* oldest and leaves the other requesters' histories as they were.
C9_BoundedHistory ==
    \A w \in Users :
        /\ Len(get_user_history(w)) <= HistoryLimit
        /\ get_user_history(w) = LatestFirst(stored[w], HistoryLimit)

\* C9 witness: the first requester has stored more than 15, the second has a history
C9_Witness ==
    /\ Len(stored[1]) > HistoryLimit /\ Len(get_user_history(1)) = HistoryLimit
    /\ Len(get_user_history(2)) >= 1

\* the request carries a manual sequence with an entry that is no number
BadManualEntry == data.mode = "manual" /\ ~AllNumeric(data.delta)
\* some lattice has been computed for the request
LatticeComputed == u # 0 \/ nan
ValidationError ==
    /\ resp.status = 400 /\ resp.error = ValidationMessage
    /\ ~LatticeComputed /\ ~committed
GenericFailure == resp.status = 500 => (resp.error = exc /\ exc # "")

\* C10 as stated: a request ends in the complete result (root value, the three
\* lattices, the sensitivity report) or in an error carrying no part of one; a
\* non-numeric manual entry gives the validation error, before any lattice and
\* with nothing stored; any other exception gives a failure with its message.
C10_AllOrNothing_AsStated ==
    pc = "responded" =>
        /\ \/ resp.status = 200 /\ resp.parts = ResultParts
           \/ resp.status \in {400, 500} /\ resp.parts = {}
        /\ BadManualEntry => ValidationError
        /\ GenericFailure

\* C10 amended: the complete result is computed and stored and is returned as the
\* JSON body or, on an export request, as the spreadsheet (root value, schedules,
\* lattices; no sensitivity report); the validation error is given when V and K
\* are numbers.
C10_AllOrNothing ==
    pc = "responded" =>
        /\ \/ /\ resp.status = 200 /\ returned /\ committed
              /\ \/ resp.kind = "json" /\ resp.parts = ResultParts
                 \/ resp.kind = "file" /\ resp.parts = SheetParts
           \/ resp.status \in {400, 500} /\ resp.parts = {}
        /\ (BadManualEntry /\ ParsedFirst(data)) => ValidationError
        /\ resp.status = 400 => BadManualEntry
        /\ GenericFailure

\* C10 witness: the validation error has been returned
C10_Witness == pc = "responded" /\ BadManualEntry /\ resp.status = 400

\* a single-point valuation made on `periods` periods, in thousands
ValuedWith(V, K, TT, sig, delta, rr, periods) ==
    (calculate_lattices(V, K, TT, sig, delta, rr, periods, NoneList).C[0][0] * Scale)
        \div Thousand
\* max(1, floor(T')) for T' = T * factor
PeriodsFor(factor) == Max(1, Floor(Mul(T, factor)))
\* the period count a perturbation of `name` is to use: its own for T, the caller's otherwise
PeriodsOf(name, factor) ==
    IF name = "Time to Maturity (T)" THEN PeriodsFor(factor) ELSE n
\* the value of the perturbation of `name` by `factor`, made on PeriodsOf(name, factor)
PerturbedWith(name, factor) ==
    ValuedWith(Vary(name, "Asset Value (V)", factor, V_calc),
               Vary(name, "Exercise Cost (K)", factor, K_calc),
               Vary(name, "Time to Maturity (T)", factor, T),
               Vary(name, "Volatility", factor, sigma),
               Vary(name, "Cost of Delay", factor, delta_val),
               Vary(name, "Risk-free Rate (r)", factor, r),
               PeriodsOf(name, factor))
\* a point of line chart c (1: V varies, 2: the cost of delay), series factor sf,
\* volatility sg, made on the caller's period count
LinePointWith(c, sf, sg) ==
    Round2(ValuedWith(IF c = 1 THEN Mul(V_calc, sf) ELSE V_calc, K_calc, T, sg,
                      IF c = 1 THEN delta_val ELSE Mul(delta_val, sf), r, n))
SeriesFactors(c) == IF c = 1 THEN {800, 1000, 1200} ELSE {500, 1000, 1500}
SeriesLabel(c, sf) == IF c = 1 THEN VLabel(Mul(V_calc, sf)) ELSE DeltaLabel(Mul(delta_val, sf))
LineChart(c) == IF c = 1 THEN sensitivity_data.line_chart_v_sigma
                ELSE sensitivity_data.line_chart_delta_sigma

\* C11: the period count inside the sensitivity analysis.  Every value of the report
\* is the root of a valuation made on max(1, floor(T')) periods of the T' it was
\* given: the two perturbations of T on max(1, floor(0.9 T)) and max(1, floor(1.1 T))
\* periods, the base value, the perturbations of V, K, sigma, cost of delay and r
\* and every line-chart point on the period count n of the main valuation.
C11_SensitivityPeriods ==
    Reported =>
        /\ n = Max(1, Floor(T))
        /\ sensitivity_data.base_option_value
               = ValuedWith(V_calc, K_calc, T, sigma, delta_val, r, n)
        /\ \A k \in DOMAIN ParamNames :
              LET name == ParamNames[k]
                  lo == PerturbedWith(name, 900)
                  hi == PerturbedWith(name, 1100)
              IN  /\ sensitivity_data.tornado[name].min = Min(lo, hi)
                  /\ sensitivity_data.tornado[name].max = Max(lo, hi)
        /\ \A c \in 1..2 : \A sf \in SeriesFactors(c) :
              \E sf2 \in SeriesFactors(c) :
                 /\ SeriesLabel(c, sf2) = SeriesLabel(c, sf)
                 /\ \A x \in 1..7 :
                       LineChart(c).data[SeriesLabel(c, sf)][x]
                           = LinePointWith(c, sf2, LineChart(c).x_labels[x])

\* C11 witness: a report whose perturbation of T by 0.9 is made on fewer periods
\* than the main valuation, and is worth less than it would be on n periods
C11_Witness ==
    /\ Reported /\ n >= 2 /\ PeriodsFor(900) < n
    /\ sensitivity_data.base_option_value > 0
    /\ PerturbedWith("Time to Maturity (T)", 900)
          # ValuedWith(V_calc, K_calc, Mul(T, 900), sigma, delta_val, r, n)

\* the cells of the square below the diagonal: more down-moves than periods
BelowDiagonal == {c \in (0..n) \X (0..n) : c[1] > c[2]}

\* C12 as stated: in the exercise-value lattice returned, every cell with i > j
\* holds the zero default, whatever V, K, sigma and T are.
C12_ExerciseBelowDiagonal_AsStated ==
    Returned => \A c \in BelowDiagonal : N[c[1]][c[2]] = 0

\* C12 amended: every cell of the exercise-value lattice, those with i > j
\* included, holds max(A[i][j] - K, 0); a cell with i > j is zero exactly when
\* A[i][j] <= K.
C12_ExerciseBelowDiagonal ==
    Returned =>
        /\ \A i \in 0..n : \A jj \in 0..n : N[i][jj] = Max(A[i][jj] - K_calc, 0)
        /\ \A c \in BelowDiagonal : N[c[1]][c[2]] = 0 <=> A[c[1]][c[2]] <= K_calc

\* C12 witness: a returned lattice with a positive exercise value below the diagonal
C12_Witness ==
    /\ Returned /\ n >= 2
    /\ \E c \in BelowDiagonal : N[c[1]][c[2]] > 0

\* C13: the option-value lattice below the diagonal.  From the boundary
\* assignment through every pass of the induction loop to the return, every cell
\* C[i][j] with i > j is 0: no pass writes it.
C13_OptionBelowDiagonal ==
    Built => \A c \in BelowDiagonal : C[c[1]][c[2]] = 0

\* C13 witness: a returned lattice of two periods or more in which a cell below
\* the diagonal has a positive exercise value and is 0 in the option lattice
C13_Witness ==
    /\ Returned /\ n >= 2 /\ C[0][0] > 0
    /\ \E c \in BelowDiagonal : N[c[1]][c[2]] > 0 /\ C[c[1]][c[2]] = 0

\* C14: the two pipelines agree.  For every auto-mode request that is valued, the
\* base option value of the sensitivity report, and the base value of every
\* tornado entry, is the root value C[0][0] of the main valuation divided by 1000.
C14_PipelinesAgree ==
    (Reported /\ ~ManualMode) =>
        /\ sensitivity_data.base_option_value = (C[0][0] * Scale) \div Thousand
        /\ sensitivity_data.base_option_value = (initial_option_value * Scale) \div Thousand
        /\ \A name \in DOMAIN sensitivity_data.tornado :
              sensitivity_data.tornado[name].base_value
                  = (initial_option_value * Scale) \div Thousand

\* C14 witness: an auto-mode report over two periods or more with a positive cost
\* of delay and a positive root value
C14_Witness ==
    /\ Reported /\ ~ManualMode /\ n >= 2 /\ delta_val > 0
    /\ initial_option_value > 0
    /\ sensitivity_data.base_option_value = (initial_option_value * Scale) \div Thousand

\* C15: super-admin preservation.  After any sequence of add_user, delete_user,
\* toggle_admin, set_super_admin and delete_account requests, starting from the
\* table create_default_admin leaves, some user has is_super_admin = true.
C15_SuperAdminPreserved ==
    \E x \in users : x.is_super_admin
====
